---- MODULE Spec2Model ----
(***************************************************************************)
(* Model of the fuzzy fill engine of hplan.py: fill_missing_values and the *)
(* run summary that main derives from its result.                          *)
(*                                                                         *)
(* The tables are the ones main hands to fill_missing_values, after the    *)
(* key columns were cleaned (hplan.py:149-150).  The similarity scorers    *)
(* live in the thefuzz library; the score that process.extractOne computes *)
(* for one (query, choice) pair under the selected scorer is an input of   *)
(* the run, the function scoreOf, fixed for the whole run.                 *)
(***************************************************************************)
EXTENDS Integers, Sequences, FiniteSets

VARIABLES df1, df2, threshold, algorithm, prevent_duplicates, scoreOf,
          pc, filled_df, df2_dict, used_matches, idx, filledRows, summary

vars == <<df1, df2, threshold, algorithm, prevent_duplicates, scoreOf,
          pc, filled_df, df2_dict, used_matches, idx, filledRows, summary>>

inputs == <<df1, df2, threshold, algorithm, prevent_duplicates, scoreOf>>

(* ---------------------------- bounds ----------------------------------- *)
MaxRows == 2
MaxRef == 2

(* ------------------------- program constants --------------------------- *)
MinThreshold == 0
MaxThreshold == 100
DefaultThreshold == 80

None == "None"

(* mutant: the weighted scorer is missing from the registry *)
MATCH_ALGORITHMS_NoWRatio == {"Ratio", "Partial Ratio", "Token Sort", "Token Set"}

MATCH_ALGORITHMS == {"Ratio", "Partial Ratio", "Token Sort", "Token Set", "WRatio"}

(* Names a caller may pass as algorithm: the registry's keys, the name the *)
(* design documents use for the weighted scorer, and an arbitrary other.   *)
AlgorithmNames ==
    {"Ratio", "Partial Ratio", "Token Sort", "Token Set", "WRatio",
     "Weighted Ratio", "Levenshtein"}

(* ---------------------------- input domains ---------------------------- *)
TargetKeys == {"acme corp", "acme inc"}
RefKeys == {"acme", "acme corp"}
RefValues == {"X", "Y"}
OldValues == {None, "old"}

ScoreSamples == {0, DefaultThreshold - 1, DefaultThreshold}
ThresholdSamples == {MinThreshold, DefaultThreshold}

SeqsUpTo(S, n) == UNION {[1..m -> S] : m \in 0..n}

TargetRows == [key : TargetKeys, value : OldValues]
RefRows == [key : RefKeys, value : RefValues]

(* ------------------------------ helpers -------------------------------- *)
(* pd.isna on a scalar cell *)
IsNa(v) == v = None

(* df1[[match_col1]].copy() followed by the four result columns *)
NewFilledDf(t, alg) ==
    [i \in 1..Len(t) |->
        [key |-> t[i].key, FilledData |-> None, MatchScore |-> 0,
         MatchedName |-> "", AlgorithmUsed |-> alg]]

(* position of key k in the dict d (a sequence of entries), 0 if absent *)
RECURSIVE DictIndex(_, _, _)
DictIndex(d, k, i) ==
    IF i > Len(d) THEN 0
    ELSE IF d[i].key = k THEN i ELSE DictIndex(d, k, i + 1)

(* mutant: a repeated key keeps the value of its first row *)
RECURSIVE DictFromZipFirst(_, _, _)
DictFromZipFirst(t, i, d) ==
    IF i > Len(t) THEN d
    ELSE IF DictIndex(d, t[i].key, 1) = 0
         THEN DictFromZipFirst(t, i + 1, Append(d, [key |-> t[i].key, value |-> t[i].value]))
         ELSE DictFromZipFirst(t, i + 1, d)

(* dict(zip(df2[match_col2], df2[data_col2])): a key keeps the position of *)
(* its first row and takes the value of its last row                       *)
RECURSIVE DictFromZip(_, _, _)
DictFromZip(t, i, d) ==
    IF i > Len(t) THEN d
    ELSE LET p == DictIndex(d, t[i].key, 1)
         IN  IF p = 0
             THEN DictFromZip(t, i + 1, Append(d, [key |-> t[i].key, value |-> t[i].value]))
             ELSE DictFromZip(t, i + 1, [d EXCEPT ![p].value = t[i].value])

DictKeys(d) == {d[i].key : i \in 1..Len(d)}

DictGet(d, k) == d[DictIndex(d, k, 1)].value

(* mutant: consumed keys stay available *)
AvailableMatchesAll(d, prevent, used) == d

(* mutant: keys matched by earlier rows are dropped whatever the flag says *)
AvailableMatchesAlwaysUnique(d, prevent, used) ==
    SelectSeq(d, LAMBDA e : e.key \notin {filled_df[j].MatchedName : j \in filledRows})

(* the dict comprehension of lines 58-59 *)
AvailableMatches(d, prevent, used) ==
    SelectSeq(d, LAMBDA e : ~prevent \/ e.key \notin used)

(* mutant: an equal score replaces the best so far *)
RECURSIVE ExtractOneFromLast(_, _, _, _, _)
ExtractOneFromLast(query, choices, sc, i, best) ==
    IF i > Len(choices) THEN best
    ELSE IF best = 0 \/ sc[query, choices[i].key] >= sc[query, choices[best].key]
         THEN ExtractOneFromLast(query, choices, sc, i + 1, i)
         ELSE ExtractOneFromLast(query, choices, sc, i + 1, best)

(* process.extractOne(query, choices, scorer): scan the choices in order,  *)
(* a choice replaces the best so far only with a strictly greater score;   *)
(* returns the position of the best choice, 0 (None) for no choices        *)
RECURSIVE ExtractOneFrom(_, _, _, _, _)
ExtractOneFrom(query, choices, sc, i, best) ==
    IF i > Len(choices) THEN best
    ELSE IF best = 0 \/ sc[query, choices[i].key] > sc[query, choices[best].key]
         THEN ExtractOneFrom(query, choices, sc, i + 1, i)
         ELSE ExtractOneFrom(query, choices, sc, i + 1, best)

ExtractOne(query, choices, sc) == ExtractOneFrom(query, choices, sc, 1, 0)

(* mutant: the threshold itself does not qualify *)
MeetsThresholdStrict(score, thr) == score > thr

(* best_match[1] >= threshold *)
MeetsThreshold(score, thr) == score >= thr

(* mutant: the matched key is never recorded *)
UsedAfterNever(prevent, used, match_name) == used

(* lines 76-77: used_matches.add(match_name) under prevent_duplicates *)
UsedAfter(prevent, used, match_name) ==
    IF prevent THEN used \cup {match_name} ELSE used

(* mutant: an unknown name falls back to some scorer *)
HasScorerDefault(alg) == TRUE

(* MATCH_ALGORITHMS[algorithm] finds an entry *)
HasScorer(alg) == alg \in MATCH_ALGORITHMS

(* result_df['Match Score'].gt(0).sum() *)
FilledCount(f) == Cardinality({i \in 1..Len(f) : f[i].MatchScore > 0})

(* ------------------------------- Init ---------------------------------- *)
ScoreFnsSampled == [TargetKeys \X RefKeys -> ScoreSamples]

(* every score 0..100 for the key "acme corp", the other key just below    *)
(* the default threshold                                                   *)
ScoreFnsSwept ==
    {[p \in TargetKeys \X RefKeys |->
        IF p[2] = "acme corp" THEN s ELSE DefaultThreshold - 1] :
            s \in MinThreshold..MaxThreshold}

ScoreFnsTwoLevel == [TargetKeys \X RefKeys -> {MinThreshold, DefaultThreshold}]

InitWith(Algs, Thresholds, ScoreFns, TRows, RRows) ==
    /\ df1 \in TRows
    /\ df2 \in RRows
    /\ threshold \in Thresholds
    /\ algorithm \in Algs
    /\ prevent_duplicates \in BOOLEAN
    /\ scoreOf \in ScoreFns
    /\ pc = "call"
    /\ filled_df = <<>>
    /\ df2_dict = <<>>
    /\ used_matches = {}
    /\ idx = 0
    /\ filledRows = {}
    /\ summary = -1

Init ==
    InitWith({"Token Set", "Weighted Ratio"}, ThresholdSamples, ScoreFnsSampled,
             SeqsUpTo([key : TargetKeys, value : {None}], MaxRows),
             SeqsUpTo(RefRows, MaxRef))

(* the whole threshold slider against the whole score range *)
InitThreshold ==
    InitWith({"Token Set", "Weighted Ratio"}, MinThreshold..MaxThreshold, ScoreFnsSwept,
             SeqsUpTo([key : {"acme corp"}, value : {None}], MaxRows),
             SeqsUpTo([key : RefKeys, value : {"X"}], MaxRef))

(* every algorithm name; target rows with and without a value of their own *)
InitConfig ==
    InitWith(AlgorithmNames, {DefaultThreshold}, ScoreFnsTwoLevel,
             SeqsUpTo(TargetRows, MaxRows), SeqsUpTo(RefRows, MaxRef))

(* ------------------------------ actions -------------------------------- *)
(* lines 39-54 when the lookup of line 40 succeeds.  used_matches is the   *)
(* empty set; with prevent_duplicates false the code holds None instead    *)
(* and never reads it.                                                     *)
Setup ==
    /\ pc = "call"
    /\ HasScorer(algorithm)
    /\ filled_df' = NewFilledDf(df1, algorithm)
    /\ df2_dict' = DictFromZip(df2, 1, <<>>)
    /\ used_matches' = {}
    /\ idx' = 1
    /\ pc' = "loop"
    /\ UNCHANGED <<inputs, filledRows, summary>>

(* line 40 raises KeyError; main reports it at lines 183-184 *)
RaiseKeyError ==
    /\ pc = "call"
    /\ ~HasScorer(algorithm)
    /\ pc' = "error"
    /\ UNCHANGED <<inputs, filled_df, df2_dict, used_matches, idx, filledRows, summary>>

(* one iteration of the loop of lines 56-77 *)
ProcessRow ==
    /\ pc = "loop"
    /\ idx <= Len(filled_df)
    /\ LET row == filled_df[idx]
           available_matches == AvailableMatches(df2_dict, prevent_duplicates, used_matches)
           best == ExtractOne(row.key, available_matches, scoreOf)
       IN  IF IsNa(row.FilledData) /\ Len(available_matches) > 0 /\ best # 0
              /\ MeetsThreshold(scoreOf[row.key, available_matches[best].key], threshold)
           THEN LET match_name == available_matches[best].key
                    match_score == scoreOf[row.key, match_name]
                IN  /\ filled_df' = [filled_df EXCEPT
                                        ![idx].FilledData = DictGet(df2_dict, match_name),
                                        ![idx].MatchScore = match_score,
                                        ![idx].MatchedName = match_name]
                    /\ used_matches' = UsedAfter(prevent_duplicates, used_matches, match_name)
                    /\ filledRows' = filledRows \cup {idx}
           ELSE UNCHANGED <<filled_df, used_matches, filledRows>>
    /\ idx' = idx + 1
    /\ UNCHANGED <<inputs, pc, df2_dict, summary>>

(* line 79 and the summary of line 164 *)
Return ==
    /\ pc = "loop"
    /\ idx > Len(filled_df)
    /\ pc' = "done"
    /\ summary' = FilledCount(filled_df)
    /\ UNCHANGED <<inputs, filled_df, df2_dict, used_matches, idx, filledRows>>

Next == Setup \/ RaiseKeyError \/ ProcessRow \/ Return

Spec == Init /\ [][Next]_vars

SpecThreshold == InitThreshold /\ [][Next]_vars

SpecConfig == InitConfig /\ [][Next]_vars

(* ===================== properties of the fill engine =================== *)
(* The properties are stated over the input tables df1 and df2, not over   *)
(* the engine's own dictionary and search.                                 *)

RefKeySet == {df2[i].key : i \in 1..Len(df2)}

FirstRowOf(k) == CHOOSE i \in 1..Len(df2) :
                    df2[i].key = k /\ \A j \in 1..(i - 1) : df2[j].key # k

LastRowOf(k) == CHOOSE i \in 1..Len(df2) :
                    df2[i].key = k /\ \A j \in (i + 1)..Len(df2) : df2[j].key # k

(* rows whose loop iteration is over *)
Processed == IF pc \in {"loop", "done"} THEN 1..(idx - 1) ELSE {}

Unfilled(i) == /\ filled_df[i].FilledData = None
               /\ filled_df[i].MatchScore = 0
               /\ filled_df[i].MatchedName = ""

MatchedBefore(i) == {filled_df[j].MatchedName : j \in filledRows \cap 1..(i - 1)}

(* the keys row i could choose from *)
AvailableFor(i) == IF prevent_duplicates THEN RefKeySet \ MatchedBefore(i) ELSE RefKeySet

ScoreFor(i, k) == scoreOf[df1[i].key, k]

(* k is the maximum of K for row i, first in reference-table order on ties *)
IsBestIn(i, k, K) ==
    /\ k \in K
    /\ \A k2 \in K : \/ ScoreFor(i, k2) < ScoreFor(i, k)
                     \/ ScoreFor(i, k2) = ScoreFor(i, k) /\ FirstRowOf(k) <= FirstRowOf(k2)

(* C1: with prevent_duplicates, no reference key is the Matched Name of    *)
(* more than one filled row; once every key of the reference table is      *)
(* consumed no later row is filled.                                        *)
C1_NoKeyUsedTwice ==
    prevent_duplicates =>
        /\ \A i \in filledRows : \A j \in filledRows :
              i # j => filled_df[i].MatchedName # filled_df[j].MatchedName
        /\ \A i \in Processed :
              RefKeySet \subseteq MatchedBefore(i) => i \notin filledRows /\ Unfilled(i)

C1_Witness ==
    /\ pc = "done" /\ prevent_duplicates
    /\ Len(df1) = 2 /\ Cardinality(RefKeySet) = 1
    /\ filledRows = {1}
    /\ \A k \in RefKeySet : ScoreFor(2, k) >= threshold

(* C2: every processed row that was filled got the key of maximum score    *)
(* among the keys available to it, the first in reference-table order on   *)
(* ties, and that score reaches the threshold; a row that was not filled   *)
(* had no available key reaching the threshold.                            *)
C2_BestAvailableKey ==
    \A i \in Processed :
        IF i \in filledRows
        THEN /\ IsBestIn(i, filled_df[i].MatchedName, AvailableFor(i))
             /\ ScoreFor(i, filled_df[i].MatchedName) >= threshold
        ELSE /\ \A k \in AvailableFor(i) : ScoreFor(i, k) < threshold
             /\ Unfilled(i)

(* two rows best-match the same key; the first takes it, the second falls  *)
(* back to the next-best key                                               *)
C2_Witness ==
    /\ pc = "done" /\ prevent_duplicates
    /\ Len(df1) = 2 /\ filledRows = {1, 2}
    /\ IsBestIn(2, filled_df[1].MatchedName, RefKeySet)
    /\ filled_df[2].MatchedName # filled_df[1].MatchedName

(* C3: a processed row with a non-empty available set is filled iff the    *)
(* maximum score over the available keys is >= threshold; a row left       *)
(* unfilled has score 0 and an empty matched key.                          *)
C3_ThresholdBoundary ==
    \A i \in Processed :
        AvailableFor(i) # {} =>
            /\ i \in filledRows <=>
                  \E k \in AvailableFor(i) : ScoreFor(i, k) >= threshold
            /\ i \notin filledRows => Unfilled(i)

(* both sides of the boundary in one run: the best candidate of row 1      *)
(* scores exactly threshold, the best candidate of row 2 threshold - 1     *)
C3_Witness ==
    /\ pc = "done" /\ prevent_duplicates
    /\ Len(df1) = 2 /\ filledRows = {1}
    /\ filled_df[1].MatchScore = threshold
    /\ AvailableFor(2) # {}
    /\ \E k \in AvailableFor(2) : IsBestIn(2, k, AvailableFor(2)) /\ ScoreFor(2, k) = threshold - 1

(* C4: a target row that already carries a value is skipped: score 0,      *)
(* empty matched key, no reference key consumed.                           *)
C4_ExistingValueSkipped ==
    \A i \in Processed :
        df1[i].value # None =>
            /\ i \notin filledRows
            /\ Unfilled(i)
            /\ MatchedBefore(i + 1) = MatchedBefore(i)

(* C5: the run summary equals the number of filled rows: a filled row has  *)
(* score > 0, any other row has score 0 and an empty matched key.          *)
C5_SummaryCountsFilled ==
    pc = "done" =>
        /\ summary = Cardinality(filledRows)
        /\ \A i \in 1..Len(filled_df) :
              IF i \in filledRows
              THEN filled_df[i].MatchScore > 0
              ELSE filled_df[i].MatchScore = 0 /\ filled_df[i].MatchedName = ""

(* C6: without prevent_duplicates the result of a row is a function of its *)
(* own key, the reference table, the threshold and the scorer alone, so    *)
(* rows with equal keys have equal results.                                *)
C6_RowsIndependent ==
    ~prevent_duplicates =>
        /\ \A i \in Processed :
              IF \E k \in RefKeySet : ScoreFor(i, k) >= threshold
              THEN /\ IsBestIn(i, filled_df[i].MatchedName, RefKeySet)
                   /\ filled_df[i].MatchScore = ScoreFor(i, filled_df[i].MatchedName)
                   /\ filled_df[i].FilledData = df2[LastRowOf(filled_df[i].MatchedName)].value
              ELSE Unfilled(i)
        /\ \A i \in Processed : \A j \in Processed :
              df1[i].key = df1[j].key =>
                  /\ filled_df[i].FilledData = filled_df[j].FilledData
                  /\ filled_df[i].MatchScore = filled_df[j].MatchScore
                  /\ filled_df[i].MatchedName = filled_df[j].MatchedName

(* the same reference key fills two rows *)
C6_Witness ==
    /\ pc = "done" /\ ~prevent_duplicates
    /\ filledRows = {1, 2}
    /\ filled_df[1].MatchedName = filled_df[2].MatchedName
    /\ Cardinality(RefKeySet) = 2

(* C7: a run whose algorithm is not in the registry processes no row,      *)
(* builds no result and ends in the error state.                           *)
C7_UnknownScorerFailsFirst ==
    algorithm \notin {"Ratio", "Partial Ratio", "Token Sort", "Token Set", "WRatio"} =>
        /\ pc \in {"call", "error"}
        /\ filled_df = <<>> /\ df2_dict = <<>>
        /\ idx = 0 /\ filledRows = {} /\ used_matches = {}
        /\ summary = -1

C7_Witness ==
    /\ pc = "error" /\ algorithm = "Levenshtein"
    /\ Len(df1) = 2 /\ Len(df2) = 2

(* C8 as stated: each of Ratio, Partial Ratio, Token Sort, Token Set and   *)
(* Weighted Ratio is accepted and recorded on every output row.            *)
C8_SpecNamesAccepted ==
    algorithm \in {"Ratio", "Partial Ratio", "Token Sort", "Token Set", "Weighted Ratio"} =>
        /\ pc # "error"
        /\ pc \in {"loop", "done"} =>
              /\ Len(filled_df) = Len(df1)
              /\ \A i \in 1..Len(filled_df) : filled_df[i].AlgorithmUsed = algorithm

(* C8 amended: each of Ratio, Partial Ratio, Token Sort, Token Set and     *)
(* WRatio is accepted: the run is no configuration error and every output  *)
(* row records that name unchanged.                                        *)
C8_RegistryNamesAccepted ==
    algorithm \in {"Ratio", "Partial Ratio", "Token Sort", "Token Set", "WRatio"} =>
        /\ pc # "error"
        /\ pc \in {"loop", "done"} =>
              /\ Len(filled_df) = Len(df1)
              /\ \A i \in 1..Len(filled_df) : filled_df[i].AlgorithmUsed = algorithm

C8_Witness ==
    /\ pc = "done" /\ algorithm = "WRatio"
    /\ Len(filled_df) = 2 /\ filledRows # {}

(* C9: for every filled row the matched key is a key of the reference      *)
(* table, the score is the scorer's score of the row's key against it and  *)
(* the filled value is the value of the last reference row with that key.  *)
C9_FilledFromPool ==
    \A i \in filledRows :
        /\ filled_df[i].MatchedName \in RefKeySet
        /\ filled_df[i].MatchScore = ScoreFor(i, filled_df[i].MatchedName)
        /\ filled_df[i].FilledData = df2[LastRowOf(filled_df[i].MatchedName)].value

(* the matched key occurs in two reference rows with different values *)
C9_Witness ==
    /\ pc = "done" /\ filledRows # {}
    /\ Len(df2) = 2 /\ df2[1].key = df2[2].key /\ df2[1].value # df2[2].value

(* C10: with prevent_duplicates the consumed set is empty before the first *)
(* row, equals the matched keys of the rows filled so far and has their    *)
(* number; a step never removes a key, adds exactly one key when it fills  *)
(* a row and none otherwise, leaves the pool as built and never enlarges   *)
(* the available set.                                                      *)
C10_ConsumedInv ==
    prevent_duplicates =>
        /\ (pc = "call" \/ idx = 1) => used_matches = {}
        /\ used_matches = {filled_df[i].MatchedName : i \in filledRows}
        /\ Cardinality(used_matches) = Cardinality(filledRows)

C10_ConsumedStep ==
    prevent_duplicates =>
        /\ used_matches \subseteq used_matches'
        /\ Cardinality(used_matches' \ used_matches) =
              IF filledRows' # filledRows THEN 1 ELSE 0
        /\ Cardinality(filledRows' \ filledRows) <= 1
        /\ pc # "call" => df2_dict' = df2_dict
        /\ pc # "call" => (DictKeys(df2_dict') \ used_matches') \subseteq
                              (DictKeys(df2_dict) \ used_matches)

C10_ConsumedSet == []C10_ConsumedInv /\ [][C10_ConsumedStep]_vars

C10_Witness ==
    /\ pc = "done" /\ prevent_duplicates
    /\ filledRows = {1, 2} /\ Cardinality(used_matches) = 2
====
